---- MODULE Spec2Model ----
(***************************************************************************)
(* Model of the 3D model viewer: the useModelFile hook (format resolution, *)
(* object-URL lifecycle, sessionStorage registry), the viewer's Model      *)
(* dispatch with the GLTF and OBJ loader components, the annotation        *)
(* manager with its geometry helpers, and the App's upload and annotation  *)
(* handlers.                                                               *)
(*                                                                         *)
(* Strings are sequences of tokens.  A token is either a separator         *)
(* (".", "/", "?") or a run of characters holding no separator, so that    *)
(* split, pop, startsWith and replace are computed on the token sequence   *)
(* as the code computes them on characters.  null is the empty option      *)
(* <<>>, a present value v is <<v>>.                                       *)
(***************************************************************************)
EXTENDS Naturals, Integers, Sequences, FiniteSets, TLC

VARIABLES
    \* useModelFile state (src/unnamed/part_000:14-18)
    modelUrl, isLoading, error, fileName, fileType, hookMounted,
    \* browser: URL.createObjectURL / revokeObjectURL and sessionStorage
    issued, revoked, sessionStorage,
    \* viewer: the url prop of Model, the component it dispatched to, GLTF
    \* suspense state, OBJModel state and its in-flight load attempts
    viewUrl, component, gltf, obj, objError, objLoading, inflight,
    \* annotation manager, its clock and the value its last call returned
    annotations, now, returned,
    \* the array a caller got from the annotations getter: each element is the
    \* record it refers to and the place in the collection of the object it
    \* is (0: an object the manager no longer holds)
    snapshot,
    \* scene: the renderMode prop, the fragment GLTFModel or OBJModel displays
    \* (its children with their materials, the materials they were parsed
    \* with, the size of its bounding box) and camera.position.z
    renderMode, fragment, cameraZ,
    \* history: the object URLs that have been the active modelUrl; the last
    \* operation of the hook with its input, its outcome, and the modelUrl and
    \* the view it started from
    activated, lastOp,
    \* App state (src/src/components/ModelViewer.tsx:549-555): the annotations
    \* it displays, the selected annotation and the alert
    appAnnotations, selectedAnnotationId, alertOpen, alertMessage, alertSeverity,
    \* the last call of a geometry helper of utils/annotations.ts: its
    \* arguments and the value it returned
    call

hookVars == <<modelUrl, isLoading, error, fileName, fileType, hookMounted>>
browserVars == <<issued, revoked, sessionStorage>>
viewerVars == <<viewUrl, component, gltf, obj, objError, objLoading, inflight>>
annVars == <<annotations, now, returned, snapshot>>
sceneVars == <<renderMode, fragment, cameraZ>>
historyVars == <<activated, lastOp>>
appVars == <<appAnnotations, selectedAnnotationId, alertOpen, alertMessage, alertSeverity>>
utilVars == <<call>>
vars == <<hookVars, browserVars, viewerVars, annVars, sceneVars, historyVars, appVars, utilVars>>

-----------------------------------------------------------------------------
(* Bounds *)

\* object URLs URL.createObjectURL hands out in one run
MaxUrls == 2
\* milliseconds Date.now() can advance in one run
MaxClock == 1
\* annotations added in one run
MaxAnnotations == 3
\* values of Math.floor(Math.random() * 1000) that are explored
RandomChoices == 2
\* tokens of a file name offered to format resolution
MaxNameLen == 3
\* children of a loaded fragment
MaxChildren == 2

-----------------------------------------------------------------------------
(* Options and strings *)

None == <<>>
Some(v) == <<v>>
IsSome(o) == o # <<>>
Val(o) == o[1]

EmptyString == <<>>

\* String.prototype.startsWith
StartsWith(s, p) == Len(s) >= Len(p) /\ SubSeq(s, 1, Len(p)) = p

\* String.prototype.includes for a one-token needle
Includes(s, t) == \E i \in 1..Len(s) : s[i] = t

FirstIndex(s, t) == CHOOSE i \in 1..Len(s) : s[i] = t /\ \A j \in 1..(i - 1) : s[j] # t

\* String.prototype.split(separator): the segments between the separators
RECURSIVE Split(_, _)
Split(s, sep) ==
    IF ~Includes(s, sep) THEN <<s>>
    ELSE LET i == FirstIndex(s, sep)
         IN  <<SubSeq(s, 1, i - 1)>> \o Split(SubSeq(s, i + 1, Len(s)), sep)

\* Array.prototype.pop on the result of split: its last element
Pop(segs) == segs[Len(segs)]

\* String.prototype.toLowerCase on one token
LowerToken(t) ==
    CASE t = "GLB" -> "glb"
      [] t = "GLTF" -> "gltf"
      [] t = "OBJ" -> "obj"
      [] t = "Obj" -> "obj"
      [] t = "STL" -> "stl"
      [] t = "Fbx" -> "fbx"
      [] t = "TXT" -> "txt"
      [] t = "Model" -> "model"
      [] OTHER -> t

ToLowerCase(s) == [i \in DOMAIN s |-> LowerToken(s[i])]

-----------------------------------------------------------------------------
(* useModelFile: format resolution *)

\* 100 * 1024 * 1024: the size limit of loadModel
MaxFileSize == 100 * 1024 * 1024

\* the limit test with >= for >
SizeExceedsOrEqual(file) == file.size >= MaxFileSize

SizeExceeds(file) == file.size > MaxFileSize

supportedFormats == {<<"glb">>, <<"gltf">>, <<"obj">>, <<"fbx">>, <<"stl">>}

\* the suffix of the name as it is written, not lower-cased
NameExtensionAsWritten(file) == Pop(Split(file.name, "."))

\* file.name.split('.').pop()?.toLowerCase()
NameExtension(file) == ToLowerCase(Pop(Split(file.name, ".")))

\* file.type.split('/')[1] with the two special cases
MimeExtension(file) ==
    LET subtype == Split(file.type, "/")[2]
    IN  IF subtype = <<"gltf+json">> THEN <<"gltf">>
        ELSE IF subtype = <<"gltf-binary">> THEN <<"glb">>
        ELSE subtype

\* the value of `extension` when loadModel tests it against supportedFormats
ResolveExtension(file) ==
    LET extension == NameExtension(file)
    IN  IF extension = EmptyString /\ StartsWith(file.type, <<"model", "/">>)
        THEN MimeExtension(file)
        ELSE extension

IsSupported(extension) == extension # EmptyString /\ extension \in supportedFormats

\* the three messages loadModel passes to setError
SizeError == [message |-> "File size exceeds 100MB limit", extension |-> EmptyString]
UnsupportedError(extension) ==
    [message |-> "Unsupported file format: .", extension |-> extension]
LoadError == [message |-> "Error loading model file", extension |-> EmptyString]

-----------------------------------------------------------------------------
(* Browser: object URLs and sessionStorage *)

Uuid == <<"uuid1", "uuid2", "uuid3", "uuid4", "uuid5", "uuid6", "uuid7", "uuid8">>

\* the n-th URL URL.createObjectURL returns: blob:http://localhost/<uuid>
ObjectUrl(n) == <<"blob:", "http:", "/", "/", "localhost", "/", Uuid[n]>>

IsBlobUrl(url) == StartsWith(url, <<"blob:">>)

\* `modelUrl && modelUrl.startsWith('blob:')`
IsActiveBlob(urlOpt) == IsSome(urlOpt) /\ Val(urlOpt) # EmptyString /\ IsBlobUrl(Val(urlOpt))

\* a setItem that writes nothing
SetItemDropped(storage, url, extension) == storage

\* sessionStorage.setItem(`fileType_${url}`, extension)
SetItem(storage, url, extension) ==
    [u \in DOMAIN storage \cup {url} |-> IF u = url THEN extension ELSE storage[u]]

\* sessionStorage.removeItem(`fileType_${url}`)
RemoveItem(storage, url) == [u \in DOMAIN storage \ {url} |-> storage[u]]

\* sessionStorage.getItem(`fileType_${url}`): null when there is no entry
GetItem(storage, url) == IF url \in DOMAIN storage THEN Some(storage[url]) ELSE None

-----------------------------------------------------------------------------
(* Viewer: Model's format detection and dispatch *)

\* new URL(url).search: the query from the first "?" on, '' when it is empty
UrlSearch(url) ==
    IF ~Includes(url, "?") \/ FirstIndex(url, "?") = Len(url) THEN EmptyString
    ELSE SubSeq(url, FirstIndex(url, "?"), Len(url))

\* Model detecting the extension from the text of the URL alone
FileExtensionFromUrl(url, storage) ==
    IF IsBlobUrl(url)
    THEN (IF Includes(Pop(Split(url, "/")), ".")
          THEN ToLowerCase(Pop(Split(Pop(Split(url, "/")), ".")))
          ELSE EmptyString)
    ELSE ToLowerCase(Pop(Split(Split(url, "?")[1], ".")))

\* the value of fileExtension when Model dispatches on it
FileExtension(url, storage) ==
    IF url # EmptyString /\ IsSome(GetItem(storage, url)) /\ Val(GetItem(storage, url)) # EmptyString
    THEN Val(GetItem(storage, url))
    ELSE IF IsBlobUrl(url)
    THEN LET lastPart == Pop(Split(url, "/"))
             searchParams == UrlSearch(url)
         IN  IF Includes(lastPart, ".")
             THEN ToLowerCase(Pop(Split(lastPart, ".")))
             ELSE IF searchParams # EmptyString /\ Includes(searchParams, ".")
             THEN ToLowerCase(Pop(Split(searchParams, ".")))
             ELSE EmptyString
    ELSE LET urlPath == Split(url, "?")[1]
         IN  ToLowerCase(Pop(Split(urlPath, ".")))

\* Model falling back to the GLTF loader for an extension it does not know
DispatchWithFallback(fileExtension) ==
    IF fileExtension = <<"obj">>
    THEN [kind |-> "OBJModel", message |-> EmptyString]
    ELSE IF fileExtension = <<"stl">>
    THEN [kind |-> "PlaceholderModel", message |-> <<"STL", " format support coming soon">>]
    ELSE IF fileExtension = <<"fbx">>
    THEN [kind |-> "PlaceholderModel", message |-> <<"FBX", " format support coming soon">>]
    ELSE [kind |-> "GLTFModel", message |-> EmptyString]

\* Model without the branch for FBX
DispatchWithoutFBX(fileExtension) ==
    IF fileExtension = <<"gltf">> \/ fileExtension = <<"glb">>
    THEN [kind |-> "GLTFModel", message |-> EmptyString]
    ELSE IF fileExtension = <<"obj">>
    THEN [kind |-> "OBJModel", message |-> EmptyString]
    ELSE IF fileExtension = <<"stl">>
    THEN [kind |-> "PlaceholderModel", message |-> <<"STL", " format support coming soon">>]
    ELSE [kind |-> "ErrorMessage",
          message |-> <<"Unsupported file format: ">>
                      \o (IF fileExtension = EmptyString THEN <<"unknown">> ELSE fileExtension)]

\* the element Model returns for a file extension
Dispatch(fileExtension) ==
    IF fileExtension = <<"gltf">> \/ fileExtension = <<"glb">>
    THEN [kind |-> "GLTFModel", message |-> EmptyString]
    ELSE IF fileExtension = <<"obj">>
    THEN [kind |-> "OBJModel", message |-> EmptyString]
    ELSE IF fileExtension = <<"stl">>
    THEN [kind |-> "PlaceholderModel", message |-> <<"STL", " format support coming soon">>]
    ELSE IF fileExtension = <<"fbx">>
    THEN [kind |-> "PlaceholderModel", message |-> <<"FBX", " format support coming soon">>]
    ELSE [kind |-> "ErrorMessage",
          message |-> <<"Unsupported file format: ">>
                      \o (IF fileExtension = EmptyString THEN <<"unknown">> ELSE fileExtension)]

Model(url, storage) == Dispatch(FileExtension(url, storage))

\* nothing is rendered in place of the viewer while modelUrl is null
NoComponent == [kind |-> "none", message |-> EmptyString]

\* a load attempt of OBJModel's effect as it starts: the first await of loadOBJ
NewAttempt(url) ==
    [url |-> url, phase |-> "importOBJLoader", live |-> TRUE, materials |-> FALSE]

\* The viewer after a render with the given url prop (null: the viewer is not
\* rendered).  A component of another type is unmounted, and its state and
\* the results of its loads are lost with it; an OBJModel that stays mounted
\* keeps obj across a change of url and runs its load effect again.
RenderViewer(urlOpt, storage) ==
    LET next == IF IsSome(urlOpt) THEN Model(Val(urlOpt), storage) ELSE NoComponent
        stays == next.kind = component.kind /\ IsSome(viewUrl)
        sameUrl == stays /\ urlOpt = viewUrl
    IN  /\ viewUrl' = urlOpt
        /\ component' = next
        /\ gltf' = IF next.kind # "GLTFModel" THEN "idle"
                   ELSE IF sameUrl THEN gltf ELSE "pending"
        /\ IF next.kind # "OBJModel"
           THEN /\ obj' = None
                /\ objError' = None
                /\ objLoading' = TRUE
                /\ inflight' = <<>>
           ELSE IF sameUrl
           THEN UNCHANGED <<obj, objError, objLoading, inflight>>
           ELSE /\ obj' = IF stays THEN obj ELSE None
                /\ objError' = None
                /\ objLoading' = TRUE
                /\ inflight' = (IF stays THEN inflight ELSE <<>>)
                               \o <<NewAttempt(Val(urlOpt))>>

\* what the viewer shows, and the URL the model it shows was loaded from
Shown ==
    IF ~IsSome(viewUrl) THEN [kind |-> "NoModel", of |-> None]
    ELSE IF component.kind = "GLTFModel"
    THEN (IF gltf = "ready" THEN [kind |-> "scene", of |-> viewUrl]
          ELSE IF gltf = "pending" THEN [kind |-> "suspended", of |-> None]
          ELSE [kind |-> "crashed", of |-> None])
    ELSE IF component.kind = "OBJModel"
    THEN (IF objLoading THEN [kind |-> "Loading OBJ model...", of |-> None]
          ELSE IF IsSome(objError) THEN [kind |-> "ErrorMessage", of |-> None]
          ELSE IF IsSome(obj) THEN [kind |-> "object", of |-> Some(Val(obj).of)]
          ELSE [kind |-> "null", of |-> None])
    ELSE [kind |-> component.kind, of |-> None]

-----------------------------------------------------------------------------
(* useModelFile: loadModel, clearModel and the unmount cleanup *)

NoFile == [name |-> EmptyString, type |-> EmptyString, size |-> 0]

Record(op, file, extension, outcome) ==
    /\ lastOp' = [op |-> op, file |-> file, extension |-> extension, outcome |-> outcome,
                  pre |-> [modelUrl |-> modelUrl, shown |-> Shown]]
    /\ activated' = IF IsSome(modelUrl') THEN activated \cup {Val(modelUrl')} ELSE activated

\* `if (modelUrl && modelUrl.startsWith('blob:')) URL.revokeObjectURL(modelUrl)`
\* in loadModel, before the try block
RevokePrevious(urlOpt, revokedSet) ==
    IF IsActiveBlob(urlOpt) THEN revokedSet \cup {Val(urlOpt)} ELSE revokedSet

\* the same statement in clearModel
RevokeCleared(urlOpt, revokedSet) ==
    IF IsActiveBlob(urlOpt) THEN revokedSet \cup {Val(urlOpt)} ELSE revokedSet

\* an effect without the cleanup
NoCleanup(urlOpt, revokedSet) == revokedSet

\* the cleanup of the effect on [modelUrl]: it runs with the previous modelUrl
\* when modelUrl changes and when the hook unmounts
EffectCleanup(urlOpt, revokedSet) ==
    IF IsActiveBlob(urlOpt) THEN revokedSet \cup {Val(urlOpt)} ELSE revokedSet

\* an early return of loadModel after setError
\* loadModel's early return also dropping the name of the active file
RejectDroppingName(file, extension, err, outcome) ==
    /\ error' = Some(err)
    /\ fileName' = None
    /\ UNCHANGED <<modelUrl, isLoading, fileType, hookMounted>>
    /\ UNCHANGED <<browserVars, viewerVars>>
    /\ Record("loadModel", file, extension, outcome)

Reject(file, extension, err, outcome) ==
    /\ error' = Some(err)
    /\ UNCHANGED <<modelUrl, isLoading, fileName, fileType, hookMounted>>
    /\ UNCHANGED <<browserVars, viewerVars>>
    /\ Record("loadModel", file, extension, outcome)

\* URL.createObjectURL throws: the catch block sets the error
CreateThrows(file, extension) ==
    /\ error' = Some(LoadError)
    /\ isLoading' = FALSE
    /\ revoked' = RevokePrevious(modelUrl, revoked)
    /\ UNCHANGED <<modelUrl, fileName, fileType, hookMounted, issued, sessionStorage>>
    /\ UNCHANGED viewerVars
    /\ Record("loadModel", file, extension, "createObjectURL threw")

\* sessionStorage.setItem throws after the object URL was created
SetItemThrows(file, extension) ==
    /\ issued < MaxUrls
    /\ issued' = issued + 1
    /\ error' = Some(LoadError)
    /\ isLoading' = FALSE
    /\ revoked' = RevokePrevious(modelUrl, revoked)
    /\ UNCHANGED <<modelUrl, fileName, fileType, hookMounted, sessionStorage>>
    /\ UNCHANGED viewerVars
    /\ Record("loadModel", file, extension, "setItem threw")

\* the try block runs to its end; the render that follows runs the cleanup of
\* the effect of the previous modelUrl and renders the viewer with the new one
Accept(file, extension) ==
    /\ issued < MaxUrls
    /\ LET objectUrl == ObjectUrl(issued + 1)
       IN  /\ issued' = issued + 1
           /\ sessionStorage' = SetItem(sessionStorage, objectUrl, extension)
           /\ modelUrl' = Some(objectUrl)
           /\ fileName' = Some(file.name)
           /\ fileType' = Some(extension)
           /\ error' = None
           /\ isLoading' = FALSE
           /\ revoked' = EffectCleanup(modelUrl, RevokePrevious(modelUrl, revoked))
           /\ UNCHANGED hookMounted
           /\ RenderViewer(Some(objectUrl), sessionStorage')
    /\ Record("loadModel", file, extension, "accepted")

LoadModel(file) ==
    /\ hookMounted
    /\ UNCHANGED <<annVars, sceneVars, utilVars>>
    /\ LET extension == ResolveExtension(file)
       IN  IF SizeExceeds(file)
           THEN Reject(file, EmptyString, SizeError, "size limit")
           ELSE IF ~IsSupported(extension)
           THEN Reject(file, extension, UnsupportedError(extension), "unsupported")
           ELSE \/ Accept(file, extension)
                \/ CreateThrows(file, extension)
                \/ SetItemThrows(file, extension)

ClearModel ==
    /\ hookMounted
    /\ sessionStorage' = IF IsSome(modelUrl) /\ Val(modelUrl) # EmptyString
                         THEN RemoveItem(sessionStorage, Val(modelUrl))
                         ELSE sessionStorage
    /\ revoked' = EffectCleanup(modelUrl, RevokeCleared(modelUrl, revoked))
    /\ modelUrl' = None
    /\ fileName' = None
    /\ fileType' = None
    /\ error' = None
    /\ UNCHANGED <<isLoading, hookMounted, issued>>
    /\ RenderViewer(None, sessionStorage')
    /\ UNCHANGED <<annVars, sceneVars, utilVars>>
    /\ Record("clearModel", NoFile, EmptyString, "cleared")

\* the component using the hook is torn down: the effect cleanup runs and the
\* viewer goes with it
Unmount ==
    /\ hookMounted
    /\ hookMounted' = FALSE
    /\ revoked' = EffectCleanup(modelUrl, revoked)
    /\ UNCHANGED <<modelUrl, isLoading, error, fileName, fileType, issued, sessionStorage>>
    /\ RenderViewer(None, sessionStorage)
    /\ UNCHANGED <<annVars, sceneVars, utilVars>>
    /\ Record("unmount", NoFile, EmptyString, "unmounted")

-----------------------------------------------------------------------------
(* Viewer: the loads of GLTFModel and OBJModel *)

RemoveAt(s, i) == SubSeq(s, 1, i - 1) \o SubSeq(s, i + 1, Len(s))

\* String.prototype.replace(pattern, replacement) for a two-token pattern: the
\* first occurrence only
ReplaceFirst(s, pattern, replacement) ==
    LET hits == {i \in 1..(Len(s) - 1) : SubSeq(s, i, i + 1) = pattern}
    IN  IF hits = {} THEN s
        ELSE LET i == CHOOSE h \in hits : \A k \in hits : h <= k
             IN  SubSeq(s, 1, i - 1) \o replacement \o SubSeq(s, i + 2, Len(s))

\* url.replace('.obj', '.mtl')
MtlUrl(url) == ReplaceFirst(url, <<".", "obj">>, <<".", "mtl">>)

\* a request for a blob URL that was revoked before the request starts fails
CanFetch(url) == ~(IsBlobUrl(url) /\ url \in revoked)

ViewerStep ==
    /\ UNCHANGED <<hookVars, browserVars, annVars, sceneVars, historyVars, appVars, utilVars>>
    /\ UNCHANGED <<viewUrl, component>>

Advance(i, phase, live) ==
    inflight' = [inflight EXCEPT ![i] = [@ EXCEPT !.phase = phase, !.live = live]]

\* an attempt ends in setError(message); setLoading(false)
FailAttempt(i, message) ==
    /\ objError' = Some(message)
    /\ objLoading' = FALSE
    /\ inflight' = RemoveAt(inflight, i)
    /\ UNCHANGED obj

\* useGLTF(url) settles: the scene is there, or the hook throws
GLTFSettle(ok) ==
    /\ component.kind = "GLTFModel"
    /\ gltf = "pending"
    /\ gltf' = IF ok THEN "ready" ELSE "failed"
    /\ UNCHANGED <<obj, objError, objLoading, inflight>>
    /\ ViewerStep

\* await import('three/examples/jsm/loaders/OBJLoader.js') in loadOBJ
ImportOBJLoader(i, ok) ==
    /\ i \in DOMAIN inflight
    /\ inflight[i].phase = "importOBJLoader"
    /\ IF ok
       THEN Advance(i, "importMTLLoader", TRUE) /\ UNCHANGED <<obj, objError, objLoading>>
       ELSE FailAttempt(i, "Failed to load OBJ loader")
    /\ UNCHANGED gltf
    /\ ViewerStep

\* await import('three/examples/jsm/loaders/MTLLoader.js'), then fetch(mtlUrl)
\* starts; a failed import is caught and loadOBJWithoutMTL runs
ImportMTLLoader(i, ok) ==
    /\ i \in DOMAIN inflight
    /\ inflight[i].phase = "importMTLLoader"
    /\ IF ok
       THEN Advance(i, "fetchMTL", CanFetch(MtlUrl(inflight[i].url)))
       ELSE Advance(i, "importOBJLoaderAgain", TRUE)
    /\ UNCHANGED <<gltf, obj, objError, objLoading>>
    /\ ViewerStep

\* await fetch(mtlUrl) and await mtlResponse.blob(): an OK response goes on to
\* mtlLoader.load, a response that is not OK and a throw to loadOBJWithoutMTL
FetchMTL(i, outcome) ==
    /\ i \in DOMAIN inflight
    /\ inflight[i].phase = "fetchMTL"
    /\ outcome \in {"ok", "not ok", "throws"}
    /\ ~inflight[i].live => outcome = "throws"
    /\ (inflight[i].live /\ IsBlobUrl(MtlUrl(inflight[i].url))) => outcome # "not ok"
    /\ IF outcome = "ok"
       THEN Advance(i, "mtlLoad", TRUE)
       ELSE Advance(i, "importOBJLoaderAgain", TRUE)
    /\ UNCHANGED <<gltf, obj, objError, objLoading>>
    /\ ViewerStep

\* mtlLoader.load(mtlObjectUrl, onLoad): onLoad starts loader.load(url, ...);
\* no onError is passed, so a failed material load calls nothing
MTLLoad(i, ok) ==
    /\ i \in DOMAIN inflight
    /\ inflight[i].phase = "mtlLoad"
    /\ IF ok
       THEN inflight' = [inflight EXCEPT ![i] =
                [url |-> inflight[i].url, phase |-> "objLoad",
                 live |-> CanFetch(inflight[i].url), materials |-> TRUE]]
       ELSE Advance(i, "stalled", FALSE)
    /\ UNCHANGED <<gltf, obj, objError, objLoading>>
    /\ ViewerStep

\* await import(...) in loadOBJWithoutMTL, then loader.load(url, ...) starts
ImportOBJLoaderAgain(i, ok) ==
    /\ i \in DOMAIN inflight
    /\ inflight[i].phase = "importOBJLoaderAgain"
    /\ IF ok
       THEN Advance(i, "objLoad", CanFetch(inflight[i].url))
            /\ UNCHANGED <<obj, objError, objLoading>>
       ELSE FailAttempt(i, "Failed to load OBJ model")
    /\ UNCHANGED gltf
    /\ ViewerStep

\* the onLoad or onError callback of loader.load(url, ...)
OBJLoad(i, ok) ==
    /\ i \in DOMAIN inflight
    /\ inflight[i].phase = "objLoad"
    /\ ok => inflight[i].live
    /\ IF ok
       THEN /\ obj' = Some([of |-> inflight[i].url, materials |-> inflight[i].materials])
            /\ objLoading' = FALSE
            /\ inflight' = RemoveAt(inflight, i)
            /\ UNCHANGED objError
       ELSE FailAttempt(i, "Failed to load OBJ model")
    /\ UNCHANGED gltf
    /\ ViewerStep

-----------------------------------------------------------------------------
(* Viewer: render mode and camera auto-fit of GLTFModel and OBJModel *)

\* Numbers: a float is NaN, Infinity or a finite value counted in thousandths
NaN == [kind |-> "NaN", milli |-> 0]
Infinity == [kind |-> "Infinity", milli |-> 0]
Finite(n) == [kind |-> "finite", milli |-> n]

\* Math.max(a, b)
MathMax(a, b) ==
    IF a.kind = "NaN" \/ b.kind = "NaN" THEN NaN
    ELSE IF a.kind = "Infinity" \/ b.kind = "Infinity" THEN Infinity
    ELSE IF a.milli >= b.milli THEN a ELSE b

\* Math.abs(a)
MathAbs(a) == IF a.kind = "finite" /\ a.milli < 0 THEN Finite(0 - a.milli) ELSE a

\* fov of <PerspectiveCamera makeDefault position={[0, 0, 5]} fov={50} />
Fov == 50
\* Math.sin(fov / 2) for fov = 50 degrees, in thousandths
SinHalfFov == 423
\* position={[0, 0, 5]}: camera.position.z before any auto-fit
InitialCameraZ == Finite(5000)

\* a / Math.sin(fov / 2)
DivideBySin(a) ==
    IF a.kind = "finite" THEN Finite((a.milli * 1000) \div SinHalfFov) ELSE a

\* a * 1.5
TimesOneAndAHalf(a) == IF a.kind = "finite" THEN Finite((a.milli * 3) \div 2) ELSE a

\* the auto-fit of both components: maxDim, cameraZ, camera.position.z
AutoFit(size) ==
    LET maxDim == MathMax(MathMax(size[1], size[2]), size[3])
        z == MathAbs(DivideBySin(maxDim))
    IN  TimesOneAndAHalf(z)

\* Materials
WireframeMaterial ==
    [type |-> "MeshBasicMaterial", name |-> "", color |-> 65280,
     wireframe |-> TRUE, flatShading |-> FALSE]
SolidMaterial ==
    [type |-> "MeshStandardMaterial", name |-> "", color |-> 13421772,
     wireframe |-> FALSE, flatShading |-> TRUE]
DefaultMaterial ==
    [type |-> "MeshStandardMaterial", name |-> "", color |-> 13421772,
     wireframe |-> FALSE, flatShading |-> FALSE]
NullMaterial == [type |-> "null"]
MaterialArray(n) == [type |-> "array", length |-> n]
ParsedMaterial(name) ==
    [type |-> "parsed", name |-> name, color |-> 0, wireframe |-> FALSE, flatShading |-> FALSE]

\* the wireframe branch left out of GLTFModel's traverse
GLTFRenderModeWithoutWireframe(material, mode) ==
    IF mode = "solid" THEN SolidMaterial ELSE material

\* GLTFModel: the material of a mesh after the traverse for a render mode
GLTFRenderMode(material, mode) ==
    IF mode = "wireframe" THEN WireframeMaterial
    ELSE IF mode = "solid" THEN SolidMaterial
    ELSE material

\* OBJModel: the material of a mesh after the traverse for a render mode
OBJRenderMode(material, mode) ==
    IF mode = "wireframe" THEN WireframeMaterial
    ELSE IF mode = "solid" THEN SolidMaterial
    ELSE IF mode = "textured"
    THEN (IF \/ material.type = "null"
             \/ (material.type = "array" /\ material.length = 0)
             \/ (material.type # "array" /\ material.name = "")
          THEN DefaultMaterial
          ELSE material)
    ELSE material

\* scene.traverse / obj.traverse: the meshes get the material of the mode
Traverse(kind, children, mode) ==
    [k \in DOMAIN children |->
        IF children[k].isMesh
        THEN [isMesh |-> TRUE,
              material |-> IF kind = "GLTF" THEN GLTFRenderMode(children[k].material, mode)
                           ELSE OBJRenderMode(children[k].material, mode)]
        ELSE children[k]]

NoFragment == [kind |-> "none", children |-> <<>>, parsed |-> <<>>,
               size |-> <<Finite(0), Finite(0), Finite(0)>>, before |-> "none"]

\* a fragment as the loader hands it over, and after the effects that run
\* when the component mounts with it
Loaded(kind, children, size, mode) ==
    [kind |-> kind, children |-> Traverse(kind, children, mode),
     parsed |-> [k \in DOMAIN children |-> children[k].material],
     size |-> size, before |-> "none"]

InitScene ==
    /\ renderMode = "textured"
    /\ fragment = NoFragment
    /\ cameraZ = InitialCameraZ

SceneStep ==
    UNCHANGED <<hookVars, browserVars, viewerVars, annVars, historyVars, appVars, utilVars>>

\* setRenderMode(mode): the effects with renderMode in their dependencies run:
\* the traverse of GLTFModel; the traverse and the auto-fit of OBJModel
SetRenderMode(mode) ==
    /\ fragment.kind # "none"
    /\ mode # renderMode
    /\ renderMode' = mode
    /\ fragment' = [fragment EXCEPT !.children = Traverse(fragment.kind, @, mode),
                                     !.before = renderMode]
    /\ cameraZ' = IF fragment.kind = "OBJ" THEN AutoFit(fragment.size) ELSE cameraZ
    /\ SceneStep

\* the user zooms with OrbitControls
MoveCamera(z) ==
    /\ fragment.kind # "none"
    /\ cameraZ' = z
    /\ UNCHANGED <<renderMode, fragment>>
    /\ SceneStep

\* the camera of useThree changes: the effects with camera in their
\* dependencies run again with the same render mode: the auto-fit of
\* GLTFModel; the traverse and the auto-fit of OBJModel
CameraChanged ==
    /\ fragment.kind # "none"
    /\ fragment' = IF fragment.kind = "OBJ"
                   THEN [fragment EXCEPT !.children = Traverse("OBJ", @, renderMode)]
                   ELSE fragment
    /\ cameraZ' = AutoFit(fragment.size)
    /\ UNCHANGED renderMode
    /\ SceneStep

-----------------------------------------------------------------------------
(* Annotation manager *)

\* `annotation-${Date.now()}-${Math.floor(Math.random() * 1000)}`: the text is
\* one-to-one in the pair of numbers it is built from
AnnotationId(time, random) == [time |-> time, random |-> random]

\* the values of Math.floor(Math.random() * 1000) that are explored
RandomValues == 0..(RandomChoices - 1)

\* a spread in which the fields of a win over the fields of b
MergeKeepingFirst(a, b) ==
    [f \in DOMAIN a \cup DOMAIN b |-> IF f \in DOMAIN a THEN a[f] ELSE b[f]]

\* { ...a, ...b }: the fields of b over the fields of a
Merge(a, b) ==
    [f \in DOMAIN a \cup DOMAIN b |-> IF f \in DOMAIN b THEN b[f] ELSE a[f]]

\* annotations.findIndex(a => a.id === id): 0 stands for -1
FindIndex(list, id) ==
    IF \E i \in DOMAIN list : list[i].id = id
    THEN CHOOSE i \in DOMAIN list :
             list[i].id = id /\ \A j \in 1..(i - 1) : list[j].id # id
    ELSE 0

\* annotations.find(a => a.id === id): undefined when no record matches
GetAnnotation(list, id) ==
    IF FindIndex(list, id) = 0 THEN None ELSE Some(list[FindIndex(list, id)])

\* a removal that takes out the first matching record only
RemoveFirstMatch(list, id) ==
    IF FindIndex(list, id) = 0 THEN list
    ELSE SubSeq(list, 1, FindIndex(list, id) - 1)
            \o SubSeq(list, FindIndex(list, id) + 1, Len(list))

\* annotations.filter(a => a.id !== id)
RECURSIVE FilterOut(_, _)
FilterOut(list, id) ==
    IF list = <<>> THEN <<>>
    ELSE (IF Head(list).id # id THEN <<Head(list)>> ELSE <<>>) \o FilterOut(Tail(list), id)

AnnStep ==
    UNCHANGED <<hookVars, browserVars, viewerVars, sceneVars, historyVars, utilVars>>

\* The objects of the caller's array after the manager replaced its array or
\* one of its elements: moved[k] is the new place of the object that was at
\* place k, 0 when the manager no longer holds it.
Realias(snap, moved) ==
    IF ~IsSome(snap) THEN snap
    ELSE Some([j \in DOMAIN Val(snap) |->
                 [rec |-> Val(snap)[j].rec,
                  at |-> IF Val(snap)[j].at = 0 THEN 0 ELSE moved[Val(snap)[j].at]]])

\* Date.now() moves on
Tick ==
    /\ now < MaxClock
    /\ now' = now + 1
    /\ UNCHANGED <<annotations, returned, snapshot>>
    /\ AnnStep

AddAnnotation(annotation, random) ==
    /\ Len(annotations) < MaxAnnotations
    /\ LET id == AnnotationId(now, random)
           newAnnotation == Merge(annotation, [id |-> id])
       IN  /\ annotations' = Append(annotations, newAnnotation)
           /\ returned' = [op |-> "addAnnotation", value |-> Some(newAnnotation)]
    /\ UNCHANGED <<now, snapshot>>
    /\ AnnStep

RemoveAnnotation(id) ==
    /\ annotations' = FilterOut(annotations, id)
    /\ returned' = [op |-> "removeAnnotation", value |-> None]
    /\ snapshot' = Realias(snapshot, [k \in DOMAIN annotations |->
                        IF annotations[k].id = id THEN 0
                        ELSE Len(FilterOut(SubSeq(annotations, 1, k), id))])
    /\ UNCHANGED now
    /\ AnnStep

UpdateAnnotation(id, data) ==
    /\ LET index == FindIndex(annotations, id)
       IN  IF index = 0
           THEN /\ returned' = [op |-> "updateAnnotation", value |-> None]
                /\ UNCHANGED <<annotations, snapshot>>
           ELSE LET updatedAnnotation == Merge(annotations[index], data)
                IN  /\ annotations' = [annotations EXCEPT ![index] = updatedAnnotation]
                    /\ returned' = [op |-> "updateAnnotation",
                                    value |-> Some(updatedAnnotation)]
                    /\ snapshot' = Realias(snapshot, [k \in DOMAIN annotations |->
                                        IF k = index THEN 0 ELSE k])
    /\ UNCHANGED now
    /\ AnnStep

ClearAnnotations ==
    /\ annotations' = <<>>
    /\ returned' = [op |-> "clearAnnotations", value |-> None]
    /\ snapshot' = Realias(snapshot, [k \in DOMAIN annotations |-> 0])
    /\ UNCHANGED now
    /\ AnnStep

\* get annotations() { return [...annotations]; }: a new array holding the
\* objects of the collection
ReadAnnotations ==
    /\ snapshot' = Some([k \in DOMAIN annotations |-> [rec |-> annotations[k], at |-> k]])
    /\ UNCHANGED <<annotations, now, returned>>
    /\ AnnStep

\* the caller changes the array the getter gave it: pop() or reverse()
CallerEditsArray(edit) ==
    /\ IsSome(snapshot)
    /\ LET a == Val(snapshot)
       IN  /\ edit = "pop" => a # <<>>
           /\ edit = "reverse" => Len(a) >= 2
           /\ snapshot' = Some(IF edit = "pop" THEN SubSeq(a, 1, Len(a) - 1)
                                ELSE [k \in DOMAIN a |-> a[Len(a) + 1 - k]])
    /\ UNCHANGED <<annotations, now, returned>>
    /\ AnnStep

\* the caller assigns fields of the j-th element of the array: the element is
\* the object the collection holds, unless the manager dropped or replaced it
CallerEditsRecord(j, data) ==
    /\ IsSome(snapshot)
    /\ j \in DOMAIN Val(snapshot)
    /\ LET element == Val(snapshot)[j]
           edited == Merge(element.rec, data)
       IN  /\ snapshot' = Some([Val(snapshot) EXCEPT ![j] = [rec |-> edited, at |-> element.at]])
           /\ annotations' = IF element.at = 0 THEN annotations
                             ELSE [annotations EXCEPT ![element.at] = edited]
    /\ UNCHANGED <<now, returned>>
    /\ AnnStep

-----------------------------------------------------------------------------
(* Geometry helpers of utils/annotations.ts *)

GeometryStep ==
    UNCHANGED <<hookVars, browserVars, viewerVars, annVars, sceneVars, historyVars, appVars>>

\* isAnnotationVisible, on the line through the camera and the annotation:
\* positions are coordinates on that line, and the scene is the set of
\* coordinates at which the line meets a surface.

\* position.clone().sub(camera.position).normalize()
Direction(position, camera) ==
    IF position > camera THEN 1 ELSE IF position < camera THEN 0 - 1 ELSE 0

\* the distances at which the ray from origin along direction meets the scene
HitDistances(origin, direction, scene) ==
    {(s - origin) * direction : s \in {t \in scene : (t - origin) * direction >= 0}}

\* raycaster.intersectObjects(scene.children, true): the hits, nearest first
RECURSIVE Ascending(_)
Ascending(distances) ==
    IF distances = {} THEN <<>>
    ELSE LET nearest == CHOOSE d \in distances : \A e \in distances : d <= e
         IN  <<[distance |-> nearest]>> \o Ascending(distances \ {nearest})

IntersectObjects(origin, direction, scene) ==
    Ascending(HitDistances(origin, direction, scene))

\* camera.position.distanceTo(position)
DistanceTo(a, b) == IF a >= b THEN a - b ELSE b - a

\* the comparison of isAnnotationVisible letting a hit at 95% count as beyond
BeyondOrAt(distance, distanceToAnnotation) == distance * 100 >= distanceToAnnotation * 95

\* intersects[0].distance > distanceToAnnotation * 0.95
Beyond(distance, distanceToAnnotation) == distance * 100 > distanceToAnnotation * 95

IsAnnotationVisible(position, camera, scene) ==
    LET direction == Direction(position, camera)
        intersects == IntersectObjects(camera, direction, scene)
    IN  IF Len(intersects) = 0 THEN TRUE
        ELSE Beyond(intersects[1].distance, DistanceTo(camera, position))

\* a call of isAnnotationVisible
CallIsAnnotationVisible(position, camera, scene) ==
    /\ position # camera
    /\ call' = [op |-> "isAnnotationVisible", position |-> position, camera |-> camera,
                scene |-> scene, result |-> IsAnnotationVisible(position, camera, scene)]
    /\ GeometryStep

\* screenToWorld and worldToScreen.  Numbers are fractions n/d in lowest
\* terms with d > 0; NotFinite stands for NaN and the infinities, which a
\* division by zero produces and every operation hands on.  The length of a
\* vector is computed to hundredths.

RECURSIVE Gcd(_, _)
Gcd(a, b) == IF b = 0 THEN a ELSE Gcd(b, a % b)

Abs(n) == IF n < 0 THEN 0 - n ELSE n

NotFinite == [n |-> 0, d |-> 0]

IsFinite(a) == a.d # 0

Frac(n, d) ==
    IF d = 0 THEN NotFinite
    ELSE LET g == Gcd(Abs(n), Abs(d))
         IN  IF d > 0 THEN [n |-> n \div g, d |-> d \div g]
             ELSE [n |-> (0 - n) \div g, d |-> (0 - d) \div g]

Whole(n) == [n |-> n, d |-> 1]

Plus(a, b) ==
    IF ~IsFinite(a) \/ ~IsFinite(b) THEN NotFinite
    ELSE LET g == Gcd(a.d, b.d)
         IN  Frac(a.n * (b.d \div g) + b.n * (a.d \div g), (a.d \div g) * b.d)

Negate(a) == IF IsFinite(a) THEN [n |-> 0 - a.n, d |-> a.d] ELSE NotFinite

Minus(a, b) == Plus(a, Negate(b))

Times(a, b) ==
    IF ~IsFinite(a) \/ ~IsFinite(b) THEN NotFinite
    ELSE LET g == Gcd(Abs(a.n), b.d)
             h == Gcd(Abs(b.n), a.d)
         IN  Frac((a.n \div g) * (b.n \div h), (a.d \div h) * (b.d \div g))

Over(a, b) ==
    IF ~IsFinite(a) \/ ~IsFinite(b) \/ b.n = 0 THEN NotFinite
    ELSE Times(a, Frac(b.d, b.n))

\* Math.round: the nearest integer, a half going up
MathRound(a) == IF IsFinite(a) THEN Whole((2 * a.n + a.d) \div (2 * a.d)) ELSE NotFinite

Vector3(x, y, z) == [x |-> x, y |-> y, z |-> z]

\* Vector3.sub, add, multiplyScalar, length, normalize
Sub(v, u) == Vector3(Minus(v.x, u.x), Minus(v.y, u.y), Minus(v.z, u.z))

Add(v, u) == Vector3(Plus(v.x, u.x), Plus(v.y, u.y), Plus(v.z, u.z))

MultiplyScalar(v, s) == Vector3(Times(v.x, s), Times(v.y, s), Times(v.z, s))

\* a component in hundredths, cut
Hundredths(a) == (a.n \div a.d) * 100 + ((a.n % a.d) * 100) \div a.d

Length(v) ==
    IF ~IsFinite(v.x) \/ ~IsFinite(v.y) \/ ~IsFinite(v.z) THEN NotFinite
    ELSE LET x == Hundredths(v.x)
             y == Hundredths(v.y)
             z == Hundredths(v.z)
             squares == x * x + y * y + z * z
             root == CHOOSE k \in 0..(Abs(x) + Abs(y) + Abs(z)) :
                        k * k <= squares /\ (k + 1) * (k + 1) > squares
         IN  Frac(root, 100)

Normalize(v) ==
    LET length == Length(v)
    IN  IF IsFinite(length) /\ length.n = 0 THEN v
        ELSE Vector3(Over(v.x, length), Over(v.y, length), Over(v.z, length))

\* the camera's rotation: quarter turns about its vertical axis
RECURSIVE Rotate(_, _)
Rotate(v, turns) ==
    IF turns = 0 THEN v ELSE Rotate(Vector3(v.z, v.y, Negate(v.x)), turns - 1)

\* Vector3.unproject(camera): from normalized device coordinates to the view
\* space of a perspective camera, then by the camera's world matrix
Unproject(v, camera) ==
    LET n == camera.near
        f == camera.far
        w == Minus(Plus(f, n), Times(v.z, Minus(f, n)))
        depthInView == Over(Times(Whole(2), Times(f, n)), w)
        view == Vector3(Times(Times(v.x, depthInView), Times(camera.tan, camera.aspect)),
                        Times(Times(v.y, depthInView), camera.tan),
                        Negate(depthInView))
    IN  Add(Rotate(view, camera.turns), camera.position)

\* the point in the view space of the camera
ToView(position, camera) == Rotate(Sub(position, camera.position), (4 - camera.turns) % 4)

\* Vector3.project(camera): x and y in normalized device coordinates
Project(position, camera) ==
    LET view == ToView(position, camera)
        w == Negate(view.z)
    IN  [x |-> Over(view.x, Times(w, Times(camera.tan, camera.aspect))),
         y |-> Over(view.y, Times(w, camera.tan))]

\* the y of screenToWorld's device coordinates over a range of 1, not 2
NdcYUnscaled(screenY, height) ==
    Plus(Negate(Over(screenY, height)), Whole(1))

\* -(screenY / canvas.clientHeight) * 2 + 1
NdcY(screenY, height) ==
    Plus(Times(Negate(Over(screenY, height)), Whole(2)), Whole(1))

\* (screenX / canvas.clientWidth) * 2 - 1
NdcX(screenX, width) ==
    Minus(Times(Over(screenX, width), Whole(2)), Whole(1))

ScreenToWorld(screenX, screenY, camera, canvas, depth) ==
    LET vector == Unproject(Vector3(NdcX(screenX, canvas.clientWidth),
                                    NdcY(screenY, canvas.clientHeight), depth), camera)
        dir == Normalize(Sub(vector, camera.position))
        distance == Over(Minus(depth, camera.position.z), dir.z)
    IN  Add(camera.position, MultiplyScalar(dir, distance))

WorldToScreen(position, camera, canvas) ==
    LET vector == Project(position, camera)
    IN  [x |-> MathRound(Over(Times(Plus(vector.x, Whole(1)), canvas.clientWidth), Whole(2))),
         y |-> MathRound(Over(Times(Plus(Negate(vector.y), Whole(1)), canvas.clientHeight),
                              Whole(2)))]

\* a call of screenToWorld
CallScreenToWorld(screenX, screenY, camera, canvas, depth) ==
    /\ call' = [op |-> "screenToWorld", screenX |-> screenX, screenY |-> screenY,
                camera |-> camera, canvas |-> canvas, depth |-> depth,
                result |-> ScreenToWorld(screenX, screenY, camera, canvas, depth)]
    /\ GeometryStep

\* worldToScreen called with the point screenToWorld returned, the same
\* camera and the same canvas
CallWorldToScreen ==
    /\ call.op = "screenToWorld"
    /\ call' = [op |-> "worldToScreen", position |-> call.result, camera |-> call.camera,
                canvas |-> call.canvas, screenX |-> call.screenX, screenY |-> call.screenY,
                result |-> WorldToScreen(call.result, call.camera, call.canvas)]
    /\ GeometryStep

-----------------------------------------------------------------------------
(* App: the upload handler, the annotation handlers and the alert *)

\* the accept map of useDropzone in FileUploader: a file passes with one of
\* the MIME types or with a name ending in one of the extensions
DropzoneAccepts(file) ==
    \/ file.type \in {<<"model", "/", "gltf-binary">>, <<"model", "/", "gltf+json">>,
                      <<"model", "/", "obj">>, <<"model", "/", "fbx">>, <<"model", "/", "stl">>}
    \/ /\ Len(file.name) >= 2
       /\ file.name[Len(file.name) - 1] = "."
       /\ <<LowerToken(file.name[Len(file.name)])>> \in supportedFormats

\* showAlert(message, severity)
ShowAlert(message, severity) ==
    /\ alertMessage' = message
    /\ alertSeverity' = severity
    /\ alertOpen' = TRUE

\* handleFileUpload(file): the alert is chosen from the suffix of the name,
\* and loadModel is called in both branches
HandleFileUpload(file) ==
    /\ LET fileExtension == ToLowerCase(Pop(Split(file.name, ".")))
       IN  IF fileExtension \in {<<"glb">>, <<"gltf">>, <<"obj">>}
           THEN ShowAlert(<<"Loaded model: ">> \o file.name, "success")
           ELSE ShowAlert(<<"File format .">> \o fileExtension
                            \o <<" is not fully supported yet. Only GLB/GLTF/OBJ files are currently supported.">>,
                          "warning")
    /\ LoadModel(file)
    /\ UNCHANGED <<appAnnotations, selectedAnnotationId>>

\* onDrop of FileUploader with the file the dropzone accepted
OnDrop(file) ==
    /\ DropzoneAccepts(file)
    /\ HandleFileUpload(file)

\* handleAlertClose
HandleAlertClose ==
    /\ alertOpen
    /\ alertOpen' = FALSE
    /\ UNCHANGED <<alertMessage, alertSeverity, appAnnotations, selectedAnnotationId>>
    /\ UNCHANGED <<hookVars, browserVars, viewerVars, annVars, sceneVars, historyVars, utilVars>>

\* handleDeleteAnnotation leaving the selection as it is
SelectionKept(selected, id) == selected

\* `if (selectedAnnotationId === id) setSelectedAnnotationId(undefined)`
SelectionAfterDelete(selected, id) == IF selected = Some(id) THEN None ELSE selected

\* handleAddAnnotation: without a model only the warning is shown
HandleAddAnnotation(annotation, random) ==
    IF ~IsSome(modelUrl) \/ Val(modelUrl) = EmptyString
    THEN /\ ShowAlert(<<"Please load a model first">>, "warning")
         /\ UNCHANGED <<appAnnotations, selectedAnnotationId, annVars>>
         /\ AnnStep
    ELSE /\ AddAnnotation(annotation, random)
         /\ appAnnotations' = annotations'
         /\ selectedAnnotationId' = Some(Val(returned'.value).id)
         /\ ShowAlert(<<"Annotation added">>, "success")

HandleEditAnnotation(id, data) ==
    /\ UpdateAnnotation(id, data)
    /\ appAnnotations' = annotations'
    /\ ShowAlert(<<"Annotation updated">>, "success")
    /\ UNCHANGED selectedAnnotationId

HandleDeleteAnnotation(id) ==
    /\ RemoveAnnotation(id)
    /\ appAnnotations' = annotations'
    /\ selectedAnnotationId' = SelectionAfterDelete(selectedAnnotationId, id)
    /\ ShowAlert(<<"Annotation deleted">>, "success")

HandleSelectAnnotation(id) ==
    /\ selectedAnnotationId' = Some(id)
    /\ UNCHANGED <<appAnnotations, alertOpen, alertMessage, alertSeverity>>
    /\ UNCHANGED <<hookVars, browserVars, viewerVars, annVars, sceneVars, historyVars, utilVars>>

\* the ids AnnotationsPanel renders list items, edit and delete buttons for
Displayed == {appAnnotations[k].id : k \in DOMAIN appAnnotations}

-----------------------------------------------------------------------------
(* Inputs *)

RECURSIVE SeqsUpTo(_, _)
SeqsUpTo(S, n) ==
    IF n = 0 THEN {<<>>}
    ELSE LET shorter == SeqsUpTo(S, n - 1)
         IN  shorter \cup {Append(q, x) : q \in shorter, x \in S}

\* files of the upload path: a GLB file at the size limit, an OBJ file, an
\* STL file, a file that is not supported and a file one byte over the limit
UploadFiles ==
    {[name |-> <<"model", ".", "GLB">>, type |-> EmptyString, size |-> MaxFileSize],
     [name |-> <<"model", ".", "obj">>, type |-> EmptyString, size |-> 1],
     [name |-> <<"model", ".", "stl">>, type |-> EmptyString, size |-> 1],
     [name |-> <<"notes", ".", "txt">>, type |-> EmptyString, size |-> 1],
     [name |-> <<"model", ".", "obj">>, type |-> EmptyString, size |-> MaxFileSize + 1]}

\* files for format resolution: every name of up to MaxNameLen tokens, with
\* every MIME type of MimeTypes
NameTokens == {".", "model", "glb", "GLTF", "Obj", "fbx", "STL", "txt"}

MimeTypes ==
    {EmptyString,
     <<"model", "/", "gltf-binary">>, <<"model", "/", "gltf+json">>,
     <<"model", "/", "obj">>, <<"model", "/", "stl">>, <<"model", "/", "fbx">>,
     <<"model", "/", "vnd.usdz+zip">>, <<"model", "/">>,
     <<"application", "/", "octet-stream">>, <<"image", "/", "png">>}

FormatFiles ==
    {[name |-> n, type |-> t, size |-> MaxFileSize] :
        n \in SeqsUpTo(NameTokens, MaxNameLen), t \in MimeTypes}

\* the file that is active when a second file is resolved
SeedFile == [name |-> <<"model", ".", "glb">>, type |-> EmptyString, size |-> 1]

\* URLs the viewer is rendered with
UrlPrefixes ==
    {<<"https:", "/", "/", "x", "/", "y", "/">>,
     <<"blob:", "http:", "/", "/", "localhost", "/">>}

UrlLastSegments ==
    {<<"model", ".", e>> : e \in {"glb", "GLTF", "Obj", "fbx", "STL", "txt"}}
        \cup {<<"download">>, <<"uuid8">>}

UrlQueries == {EmptyString, <<"?", "v=2">>, <<"?", "file=model", ".", "obj">>}

ViewerUrls == {p \o l \o q : p \in UrlPrefixes, l \in UrlLastSegments, q \in UrlQueries}

\* an entry sessionStorage still holds from an earlier page of the same tab
StaleUrl == <<"blob:", "http:", "/", "/", "localhost", "/", "uuid8">>

AnnotationData ==
    {[position |-> "p1", title |-> "New Annotation", description |-> "d1", color |-> "c1"]}

AnnotationUpdates ==
    {[title |-> "Edited"]}

AnnotationIds == {AnnotationId(t, r) : t \in 0..MaxClock, r \in RandomValues}

RenderModes == {"textured", "solid", "wireframe"}

\* children of a parsed fragment: meshes with a named material, a material
\* without a name, no material, an empty and a filled material array, and a
\* child that is not a mesh
ParsedChildren ==
    {[isMesh |-> TRUE, material |-> m] :
        m \in {ParsedMaterial("body"), ParsedMaterial(""), NullMaterial,
               MaterialArray(0), MaterialArray(2)}}
    \cup {[isMesh |-> FALSE, material |-> ParsedMaterial("line")]}

\* bounding-box sizes: an empty fragment, a box, a fragment in one axis, and
\* fragments with a vertex that is not a number or not finite
Sizes ==
    {<<Finite(0), Finite(0), Finite(0)>>,
     <<Finite(1000), Finite(2000), Finite(500)>>,
     <<Finite(0), Finite(0), Finite(2000)>>,
     <<NaN, Finite(1000), Finite(1000)>>,
     <<Infinity, Finite(1000), Finite(1000)>>}

CameraDistances == {Finite(1000), InitialCameraZ}

-----------------------------------------------------------------------------
(* Specifications *)

\* useState([]), useState(undefined), useState(false), useState(''),
\* useState('info')
InitApp ==
    /\ appAnnotations = <<>>
    /\ selectedAnnotationId = None
    /\ alertOpen = FALSE
    /\ alertMessage = EmptyString
    /\ alertSeverity = "info"

\* no geometry helper has been called
InitUtil == call = [op |-> "none"]

Init ==
    /\ modelUrl = None
    /\ isLoading = FALSE
    /\ error = None
    /\ fileName = None
    /\ fileType = None
    /\ hookMounted = TRUE
    /\ issued = 0
    /\ revoked = {}
    /\ sessionStorage = <<>>
    /\ viewUrl = None
    /\ component = NoComponent
    /\ gltf = "idle"
    /\ obj = None
    /\ objError = None
    /\ objLoading = TRUE
    /\ inflight = <<>>
    /\ annotations = <<>>
    /\ now = 0
    /\ returned = [op |-> "createAnnotationManager", value |-> None]
    /\ snapshot = None
    /\ InitScene
    /\ InitApp
    /\ InitUtil
    /\ activated = {}
    /\ lastOp = [op |-> "init", file |-> NoFile, extension |-> EmptyString,
                 outcome |-> "init",
                 pre |-> [modelUrl |-> None, shown |-> [kind |-> "NoModel", of |-> None]]]

\* the application: uploads, clear and teardown, and the viewer's loads
Next ==
    \/ \E file \in UploadFiles : LoadModel(file) /\ UNCHANGED appVars
    \/ ClearModel /\ UNCHANGED appVars
    \/ Unmount /\ UNCHANGED appVars
    \/ \E ok \in BOOLEAN : GLTFSettle(ok)
    \/ \E i \in DOMAIN inflight, ok \in BOOLEAN : ImportOBJLoader(i, ok)
    \/ \E i \in DOMAIN inflight, ok \in BOOLEAN : ImportMTLLoader(i, ok)
    \/ \E i \in DOMAIN inflight, outcome \in {"ok", "not ok", "throws"} : FetchMTL(i, outcome)
    \/ \E i \in DOMAIN inflight, ok \in BOOLEAN : MTLLoad(i, ok)
    \/ \E i \in DOMAIN inflight, ok \in BOOLEAN : ImportOBJLoaderAgain(i, ok)
    \/ \E i \in DOMAIN inflight, ok \in BOOLEAN : OBJLoad(i, ok)

Spec == Init /\ [][Next]_vars

\* format resolution: one file resolved by loadModel, with no model or with
\* the seed file's model active, and one URL rendered by the viewer, with an
\* empty sessionStorage or one that holds a stale entry
InitFormats ==
    \/ Init
    \/ \E e \in {<<"obj">>, <<"bin">>} :
          /\ sessionStorage = SetItem(<<>>, StaleUrl, e)
          /\ modelUrl = None
          /\ isLoading = FALSE
          /\ error = None
          /\ fileName = None
          /\ fileType = None
          /\ hookMounted = TRUE
          /\ issued = 0
          /\ revoked = {}
          /\ viewUrl = None
          /\ component = NoComponent
          /\ gltf = "idle"
          /\ obj = None
          /\ objError = None
          /\ objLoading = TRUE
          /\ inflight = <<>>
          /\ annotations = <<>>
          /\ now = 0
          /\ returned = [op |-> "createAnnotationManager", value |-> None]
          /\ snapshot = None
          /\ InitScene
          /\ InitApp
          /\ InitUtil
          /\ activated = {}
          /\ lastOp = [op |-> "init", file |-> NoFile, extension |-> EmptyString,
                       outcome |-> "init",
                       pre |-> [modelUrl |-> None,
                                shown |-> [kind |-> "NoModel", of |-> None]]]

Seeded ==
    /\ lastOp.op = "loadModel"
    /\ lastOp.file = SeedFile
    /\ lastOp.outcome = "accepted"
    /\ issued = 1

\* ModelViewer is rendered with modelUrl = url
RenderModel(url) ==
    /\ lastOp.op = "init"
    /\ RenderViewer(Some(url), sessionStorage)
    /\ UNCHANGED <<hookVars, browserVars, annVars, sceneVars, appVars, utilVars>>
    /\ Record("render", NoFile, EmptyString, "rendered")

SeedModel ==
    /\ lastOp.op = "init"
    /\ sessionStorage = <<>>
    /\ LoadModel(SeedFile)
    /\ UNCHANGED appVars

ResolveFile(file) ==
    /\ lastOp.op = "init" \/ Seeded
    /\ LoadModel(file)
    /\ UNCHANGED appVars

NextFormats ==
    \/ SeedModel
    \/ (lastOp.op = "init" \/ Seeded) /\ \E file \in FormatFiles : ResolveFile(file)
    \/ lastOp.op = "init" /\ \E url \in ViewerUrls \cup {StaleUrl} : RenderModel(url)

SpecFormats == InitFormats /\ [][NextFormats]_vars

\* the annotation manager alone
NextAnnotations ==
    \/ Tick /\ UNCHANGED appVars
    \/ \E annotation \in AnnotationData, random \in RandomValues :
          AddAnnotation(annotation, random) /\ UNCHANGED appVars
    \/ \E id \in AnnotationIds : RemoveAnnotation(id) /\ UNCHANGED appVars
    \/ \E id \in AnnotationIds, data \in AnnotationUpdates : UpdateAnnotation(id, data) /\ UNCHANGED appVars
    \/ ClearAnnotations /\ UNCHANGED appVars

SpecAnnotations == Init /\ [][NextAnnotations]_vars

\* a fragment is displayed by GLTFModel or OBJModel: its effects have run
\* with the render mode it mounted with; the bounding box of a fragment
\* without children is empty
InitRender ==
    /\ \E kind \in {"GLTF", "OBJ"}, children \in SeqsUpTo(ParsedChildren, MaxChildren),
          size \in Sizes, mode \in RenderModes :
          /\ children = <<>> => size = <<Finite(0), Finite(0), Finite(0)>>
          /\ renderMode = mode
          /\ fragment = Loaded(kind, children, size, mode)
          /\ cameraZ = AutoFit(size)
    /\ modelUrl = None
    /\ isLoading = FALSE
    /\ error = None
    /\ fileName = None
    /\ fileType = None
    /\ hookMounted = TRUE
    /\ issued = 0
    /\ revoked = {}
    /\ sessionStorage = <<>>
    /\ viewUrl = None
    /\ component = NoComponent
    /\ gltf = "idle"
    /\ obj = None
    /\ objError = None
    /\ objLoading = TRUE
    /\ inflight = <<>>
    /\ annotations = <<>>
    /\ now = 0
    /\ returned = [op |-> "createAnnotationManager", value |-> None]
    /\ snapshot = None
    /\ InitApp
    /\ InitUtil
    /\ activated = {}
    /\ lastOp = [op |-> "init", file |-> NoFile, extension |-> EmptyString,
                 outcome |-> "init",
                 pre |-> [modelUrl |-> None, shown |-> [kind |-> "NoModel", of |-> None]]]

NextRender ==
    \/ \E mode \in RenderModes : SetRenderMode(mode)
    \/ \E z \in CameraDistances : MoveCamera(z)
    \/ CameraChanged

SpecRender == InitRender /\ [][NextRender]_vars

\* the annotation manager and a caller that keeps the array the getter gave it
NextSnapshot ==
    \/ \E annotation \in AnnotationData, random \in RandomValues :
          AddAnnotation(annotation, random) /\ UNCHANGED appVars
    \/ \E id \in AnnotationIds : RemoveAnnotation(id) /\ UNCHANGED appVars
    \/ \E id \in AnnotationIds, data \in AnnotationUpdates : UpdateAnnotation(id, data) /\ UNCHANGED appVars
    \/ ReadAnnotations /\ UNCHANGED appVars
    \/ \E edit \in {"pop", "reverse"} : CallerEditsArray(edit) /\ UNCHANGED appVars
    \/ \E j \in 1..MaxAnnotations, data \in AnnotationUpdates : CallerEditsRecord(j, data) /\ UNCHANGED appVars

SpecSnapshot == Init /\ [][NextSnapshot]_vars

\* coordinates on the line of sight: of the camera, of the annotation, and
\* of the surfaces of the scene the line meets
LineCameras == {0, 20}

LinePositions == {0, 20, 40}

LineScenes == SUBSET {0 - 5, 10, 19, 20, 25, 38, 45}

\* canvases, and pixels on them: corners, the centre, a pixel between and a
\* pointer position between two pixels
Canvases ==
    {[clientWidth |-> Whole(800), clientHeight |-> Whole(600)],
     [clientWidth |-> Whole(600), clientHeight |-> Whole(800)]}

ScreenXs == {Whole(0), Whole(100), Frac(201, 2), Whole(400), Whole(600)}

ScreenYs == {Whole(0), Whole(50), Whole(300), Whole(600)}

\* perspective cameras: in front of the origin looking at it, off the axis,
\* turned a quarter and a half about the vertical axis, and in the plane
\* z = 0; near 1, far 9, a field of view with tan(fov / 2) = 1/2 and the
\* aspect of the canvas
CameraPoses ==
    {[position |-> Vector3(Whole(0), Whole(0), Whole(5)), turns |-> 0],
     [position |-> Vector3(Whole(1), Whole(2), Whole(5)), turns |-> 0],
     [position |-> Vector3(Whole(5), Whole(0), Whole(1)), turns |-> 1],
     [position |-> Vector3(Whole(0), Whole(0), Whole(0 - 5)), turns |-> 2],
     [position |-> Vector3(Whole(0), Whole(0), Whole(0)), turns |-> 0]}

CameraOf(pose, canvas) ==
    [position |-> pose.position, turns |-> pose.turns, near |-> Whole(1), far |-> Whole(9),
     tan |-> Frac(1, 2), aspect |-> Over(canvas.clientWidth, canvas.clientHeight)]

Depths == {Whole(0), Whole(2), Frac(5, 4), Whole(5)}

\* the geometry helpers called on their own: one call of isAnnotationVisible,
\* or one call of screenToWorld followed by worldToScreen on its result
NextGeometry ==
    \/ call.op = "none" /\ \E position \in LinePositions, camera \in LineCameras,
                               scene \in LineScenes :
                              CallIsAnnotationVisible(position, camera, scene)
    \/ call.op = "none" /\ \E screenX \in ScreenXs, screenY \in ScreenYs,
                               canvas \in Canvases, pose \in CameraPoses, depth \in Depths :
                              CallScreenToWorld(screenX, screenY, CameraOf(pose, canvas),
                                                canvas, depth)
    \/ CallWorldToScreen

SpecGeometry == Init /\ [][NextGeometry]_vars

\* the application with every asynchronous result delivered: an import, a
\* fetch or a loader call that is pending settles, one way or the other
Delivery ==
    /\ WF_vars(\E ok \in BOOLEAN : GLTFSettle(ok))
    /\ WF_vars(\E i \in DOMAIN inflight, ok \in BOOLEAN : ImportOBJLoader(i, ok))
    /\ WF_vars(\E i \in DOMAIN inflight, ok \in BOOLEAN : ImportMTLLoader(i, ok))
    /\ WF_vars(\E i \in DOMAIN inflight, outcome \in {"ok", "not ok", "throws"} :
                  FetchMTL(i, outcome))
    /\ WF_vars(\E i \in DOMAIN inflight, ok \in BOOLEAN : MTLLoad(i, ok))
    /\ WF_vars(\E i \in DOMAIN inflight, ok \in BOOLEAN : ImportOBJLoaderAgain(i, ok))
    /\ WF_vars(\E i \in DOMAIN inflight, ok \in BOOLEAN : OBJLoad(i, ok))

SpecDelivery == Init /\ [][Next]_vars /\ Delivery

\* files dropped on the uploader: a model, the same name over the size limit
\* and at it, a format the viewer has a placeholder for, and files whose
\* MIME type the dropzone accepts while the name has another suffix or none
DroppedFiles ==
    {[name |-> <<"model", ".", "glb">>, type |-> <<"model", "/", "gltf-binary">>, size |-> 1],
     [name |-> <<"model", ".", "obj">>, type |-> EmptyString, size |-> MaxFileSize + 1],
     [name |-> <<"model", ".", "obj">>, type |-> EmptyString, size |-> MaxFileSize],
     [name |-> <<"model", ".", "stl">>, type |-> EmptyString, size |-> 1],
     [name |-> <<"notes", ".", "txt">>, type |-> <<"model", "/", "obj">>, size |-> 1],
     [name |-> <<"notes", ".", "txt">>, type |-> EmptyString, size |-> 1]}

\* the App's upload tab: files dropped on the uploader, and the alert closed
NextUpload ==
    \/ \E file \in DroppedFiles : OnDrop(file)
    \/ HandleAlertClose

SpecUpload == Init /\ [][NextUpload]_vars

\* the App's annotations tab, before and after the seed file is uploaded
NextPanel ==
    \/ lastOp.op = "init" /\ OnDrop(SeedFile)
    \/ \E annotation \in AnnotationData, random \in RandomValues :
          HandleAddAnnotation(annotation, random)
    \/ \E id \in Displayed, data \in AnnotationUpdates : HandleEditAnnotation(id, data)
    \/ \E id \in Displayed : HandleDeleteAnnotation(id)
    \/ \E id \in Displayed : HandleSelectAnnotation(id)
    \/ HandleAlertClose

SpecPanel == Init /\ [][NextPanel]_vars

-----------------------------------------------------------------------------
(* Properties *)

FormatNames == {"glb", "gltf", "obj", "fbx", "stl"}

\* the name ends in "." followed by a suffix that lower-cases to format
HasSuffix(name, format) ==
    /\ Len(name) >= 2
    /\ name[Len(name) - 1] = "."
    /\ LowerToken(name[Len(name)]) = format

HasSupportedSuffix(name) == \E format \in FormatNames : HasSuffix(name, format)

\* the step is a call of loadModel, with the file the history records
IsLoadModelStep == LoadModel(lastOp'.file)

\* C1: a loadModel call with a file over 100 * 1024 * 1024 bytes sets the
\* size-limit error and changes nothing else: no object URL is created, no
\* registry entry written, nothing revoked and the viewer does not move.  A
\* call with a file of exactly that size and a supported suffix is not
\* rejected: it goes on to create the object URL and, when the try block
\* completes, the new URL is the active model with the file's name.
C1_SizeLimit ==
    [][IsLoadModelStep =>
          LET file == lastOp'.file
          IN  /\ file.size > MaxFileSize =>
                    /\ error' = Some(SizeError)
                    /\ lastOp'.outcome = "size limit"
                    /\ UNCHANGED <<modelUrl, fileName, fileType, isLoading>>
                    /\ UNCHANGED <<issued, revoked, sessionStorage, viewerVars>>
              /\ (file.size = MaxFileSize /\ HasSupportedSuffix(file.name)) =>
                    /\ lastOp'.outcome \in
                           {"accepted", "createObjectURL threw", "setItem threw"}
                    /\ error' # Some(SizeError)
                    /\ lastOp'.outcome = "accepted" =>
                          /\ issued' = issued + 1
                          /\ modelUrl' = Some(ObjectUrl(issued'))
                          /\ fileName' = Some(file.name)
                          /\ viewUrl' = modelUrl'
                          /\ error' = None]_vars

\* an over-limit file was rejected while the file of exactly the limit size,
\* accepted before, is the active model
C1_Witness ==
    /\ lastOp.op = "loadModel"
    /\ lastOp.outcome = "size limit"
    /\ lastOp.file.size = MaxFileSize + 1
    /\ IsSome(modelUrl)
    /\ fileName = Some(<<"model", ".", "GLB">>)
    /\ error = Some(SizeError)

\* C2: when the file name ends in a dotted suffix that lower-cases to one
\* of glb, gltf, obj, fbx, stl, the extension loadModel resolves is exactly
\* that suffix in lower case, whatever the MIME type; the file is not
\* rejected as unsupported, and once accepted the hook's fileType and the
\* registry entry of its object URL are that suffix.
C2_NameSuffixWins ==
    \A format \in FormatNames :
        (/\ lastOp.op = "loadModel"
         /\ lastOp.file.size <= MaxFileSize
         /\ HasSuffix(lastOp.file.name, format)) =>
            /\ lastOp.extension = <<format>>
            /\ lastOp.outcome # "unsupported"
            /\ lastOp.outcome = "accepted" =>
                  /\ fileType = Some(<<format>>)
                  /\ GetItem(sessionStorage, Val(modelUrl)) = Some(<<format>>)

\* a name with an upper-case suffix and a MIME type that names another format
\* was accepted as the format of the name
C2_Witness ==
    /\ lastOp.op = "loadModel"
    /\ lastOp.outcome = "accepted"
    /\ lastOp.file.name = <<"model", ".", "STL">>
    /\ lastOp.file.type = <<"model", "/", "gltf-binary">>
    /\ fileType = Some(<<"stl">>)

MimeFormats ==
    {<<"gltf-binary", "glb">>, <<"gltf+json", "gltf">>, <<"obj", "obj">>,
     <<"stl", "stl">>, <<"fbx", "fbx">>}

\* C3: when the file name holds no dotted suffix (the empty name, or a name
\* without a dot) and the MIME type is model/<subtype>, loadModel resolves
\* the format of the subtype (gltf-binary: glb, gltf+json: gltf, obj, stl,
\* fbx: themselves) and does not reject the file as unsupported.
C3_MimeFallback ==
    \A m \in MimeFormats :
        (/\ lastOp.op = "loadModel"
         /\ lastOp.file.size <= MaxFileSize
         /\ ~Includes(lastOp.file.name, ".")
         /\ lastOp.file.type = <<"model", "/", m[1]>>) =>
            /\ lastOp.extension = <<m[2]>>
            /\ lastOp.outcome # "unsupported"


IsRecognized(extension) == \E format \in FormatNames : extension = <<format>>

\* the viewer renders the unsupported-format error, with no loader mounted
\* and no load started, when the extension it detects is not recognized
ViewerFailsHard ==
    (IsSome(viewUrl) /\ ~IsRecognized(FileExtension(Val(viewUrl), sessionStorage))) =>
        /\ component.kind = "ErrorMessage"
        /\ component.message[1] = "Unsupported file format: "
        /\ Shown.kind = "ErrorMessage"
        /\ inflight = <<>>
        /\ gltf = "idle"
        /\ obj = None

\* C4: a loadModel call whose resolved extension is none of glb, gltf, obj,
\* fbx, stl sets the unsupported-format error naming that extension and
\* leaves modelUrl, fileName, fileType, the registry, the object URLs and the
\* viewer as they were; and the viewer, given a URL whose detected extension
\* is not recognized, renders the unsupported-format error and mounts no
\* loader and starts no load.
C4_UnsupportedIsHardFailure ==
    /\ [][(/\ IsLoadModelStep
           /\ lastOp'.file.size <= MaxFileSize
           /\ ~IsRecognized(ResolveExtension(lastOp'.file))) =>
              /\ error' = Some(UnsupportedError(ResolveExtension(lastOp'.file)))
              /\ lastOp'.outcome = "unsupported"
              /\ UNCHANGED <<modelUrl, fileName, fileType, isLoading>>
              /\ UNCHANGED <<issued, revoked, sessionStorage, viewerVars>>]_vars
    /\ []ViewerFailsHard

\* a file without a recognized format was rejected while the seed file's
\* model was active, and that model still is
C4_Witness ==
    /\ lastOp.op = "loadModel"
    /\ lastOp.outcome = "unsupported"
    /\ lastOp.file.name = <<"model", ".", "txt">>
    /\ error = Some(UnsupportedError(<<"txt">>))
    /\ modelUrl = Some(ObjectUrl(1))
    /\ fileName = Some(SeedFile.name)
    /\ component.kind = "GLTFModel"

PlaceholderTag(extension) == IF extension = <<"stl">> THEN "STL" ELSE "FBX"

\* C5: a file that loadModel resolves as stl or fbx is not rejected as
\* unsupported; once accepted its object URL is the active model with that
\* file type, and the viewer shows the placeholder whose message carries the
\* format, with no loader mounted, no load started and no error.
C5_RecognizedButNotRendered ==
    (/\ lastOp.op = "loadModel"
     /\ lastOp.extension \in {<<"stl">>, <<"fbx">>}) =>
        /\ lastOp.outcome # "unsupported"
        /\ lastOp.outcome = "accepted" =>
              /\ modelUrl = Some(ObjectUrl(issued))
              /\ fileType = Some(lastOp.extension)
              /\ error = None
              /\ viewUrl = modelUrl
              /\ component = [kind |-> "PlaceholderModel",
                              message |-> <<PlaceholderTag(lastOp.extension),
                                            " format support coming soon">>]
              /\ Shown.kind = "PlaceholderModel"
              /\ inflight = <<>>
              /\ gltf = "idle"
              /\ objError = None

\* an FBX file replaced the seed file's model and the viewer shows the FBX
\* placeholder
C5_Witness ==
    /\ lastOp.op = "loadModel"
    /\ lastOp.outcome = "accepted"
    /\ lastOp.extension = <<"fbx">>
    /\ lastOp.pre.modelUrl = Some(ObjectUrl(1))
    /\ fileType = Some(<<"fbx">>)
    /\ component.kind = "PlaceholderModel"
    /\ component.message[1] = "FBX"


\* the handle that is active: the hook's modelUrl while the hook is mounted
Active == IF hookMounted THEN modelUrl ELSE None

\* C6: at most one object URL that has been the active model is not revoked,
\* and every object URL that has been the active model and no longer is has
\* been revoked, after any sequence of loadModel, clearModel and teardown;
\* the viewer is rendered with the active handle and no other.
C6_OldUrlsRevoked ==
    /\ \A u \in activated : Active = Some(u) \/ u \in revoked
    /\ Cardinality({u \in activated : u \notin revoked}) <= 1
    /\ viewUrl = Active

\* a second accepted load replaced the first model: the first object URL is
\* revoked and the second is active
C6_Witness ==
    /\ lastOp.op = "loadModel"
    /\ lastOp.outcome = "accepted"
    /\ lastOp.pre.modelUrl = Some(ObjectUrl(1))
    /\ activated = {ObjectUrl(1), ObjectUrl(2)}
    /\ ObjectUrl(1) \in revoked
    /\ Active = Some(ObjectUrl(2))
    /\ ObjectUrl(2) \notin revoked

\* C7: the registry holds no entry for a handle that has been released: a
\* handle that is revoked and no longer the active model has no
\* fileType_<url> entry in sessionStorage.
C7_NoEntryForReleasedHandle ==
    \A u \in DOMAIN sessionStorage : ~(u \in revoked /\ Active # Some(u))

\* the load of the file failed in the viewer: useGLTF threw, or OBJModel ended
\* with an error
ViewerLoadFailed ==
    \/ component.kind = "GLTFModel" /\ gltf = "failed"
    \/ component.kind = "OBJModel" /\ ~objLoading /\ IsSome(objError)

\* C8: when a model was active and displayed and a loadModel call for another
\* file fails (it is rejected, object-URL creation or the registry write
\* throws, or the new content fails to load in the viewer), the earlier model
\* is still the active handle, its object URL is not revoked, and the viewer
\* still displays it.
C8_FailedLoadKeepsPrevious ==
    (/\ lastOp.op = "loadModel"
     /\ hookMounted
     /\ IsSome(lastOp.pre.modelUrl)
     /\ lastOp.pre.shown.kind \in {"scene", "object"}
     /\ lastOp.pre.shown.of = lastOp.pre.modelUrl
     /\ \/ lastOp.outcome \in {"size limit", "unsupported",
                               "createObjectURL threw", "setItem threw"}
        \/ lastOp.outcome = "accepted" /\ ViewerLoadFailed) =>
        /\ modelUrl = lastOp.pre.modelUrl
        /\ Val(lastOp.pre.modelUrl) \notin revoked
        /\ Shown = lastOp.pre.shown

\* C9: the result of an OBJ load for a URL that is no longer the viewer's URL
\* is discarded when it arrives: it changes neither the object, the error nor
\* the loading flag; and the object OBJModel displays is always the one parsed
\* from the viewer's current URL.
C9_StaleResultDiscarded ==
    /\ [][\A i \in DOMAIN inflight :
             (/\ component.kind = "OBJModel"
              /\ viewUrl' = viewUrl
              /\ Some(inflight[i].url) # viewUrl
              /\ inflight[i].phase = "objLoad"
              /\ inflight' = RemoveAt(inflight, i)) =>
                 UNCHANGED <<obj, objError, objLoading>>]_vars
    /\ [](component.kind = "OBJModel" /\ Shown.kind = "object" => Shown.of = viewUrl)

\* C10: no two annotations of the collection share an id, whatever sequence of
\* addAnnotation, updateAnnotation, removeAnnotation and clearAnnotations has
\* run, two addAnnotation calls in the same millisecond included.
C10_IdsDistinct ==
    \A i, j \in DOMAIN annotations :
        i # j => annotations[i].id # annotations[j].id

\* the places of the records of list whose id is not id
Kept(list, id) == {i \in DOMAIN list : list[i].id # id}

\* the k-th smallest element of a set of numbers
NthOf(S, k) == CHOOSE i \in S : Cardinality({j \in S : j < i}) = k - 1

\* C11: removeAnnotation(id) leaves no record of that id in the collection,
\* and the records it leaves are exactly the records of other ids, each
\* unchanged and in the order they had; when no record has the id the
\* collection is unchanged.
C11_RemoveKeepsOthers ==
    [][\A id \in AnnotationIds :
          RemoveAnnotation(id) =>
             LET kept == Kept(annotations, id)
             IN  /\ \A k \in DOMAIN annotations' : annotations'[k].id # id
                 /\ Len(annotations') = Cardinality(kept)
                 /\ \A k \in DOMAIN annotations' :
                        annotations'[k] = annotations[NthOf(kept, k)]
                 /\ kept = DOMAIN annotations => annotations' = annotations
                 /\ returned'.value = None]_vars

\* after a removal two records are left, an edited one before one that was
\* never edited, with different ids
C11_Witness ==
    /\ returned.op = "removeAnnotation"
    /\ Len(annotations) = 2
    /\ annotations[1].title = "Edited"
    /\ annotations[2].title = "New Annotation"
    /\ annotations[1].id # annotations[2].id

\* C12: updateAnnotation(id, data) on an id of the collection returns the
\* first record of that id with the fields of data overwritten and every
\* other field, the id included, as it was; the record keeps its place and
\* every other record is unchanged.  On an id that is not in the collection
\* it returns null and the collection is unchanged.
C12_UpdateInPlace ==
    [][\A id \in AnnotationIds, data \in AnnotationUpdates :
          UpdateAnnotation(id, data) =>
             LET hits == {i \in DOMAIN annotations : annotations[i].id = id}
             IN  IF hits = {}
                 THEN /\ returned'.value = None
                      /\ annotations' = annotations
                 ELSE LET index == NthOf(hits, 1)
                          old == annotations[index]
                          new == Val(returned'.value)
                      IN  /\ IsSome(returned'.value)
                          /\ DOMAIN new = DOMAIN old \cup DOMAIN data
                          /\ \A f \in DOMAIN data : new[f] = data[f]
                          /\ \A f \in DOMAIN old \ DOMAIN data : new[f] = old[f]
                          /\ new.id = id
                          /\ Len(annotations') = Len(annotations)
                          /\ annotations'[index] = new
                          /\ \A k \in DOMAIN annotations \ {index} :
                                 annotations'[k] = annotations[k]]_vars

\* an update returned the second of three records with a new title and its
\* colour kept, and the records around it are as they were added
C12_Witness ==
    /\ returned.op = "updateAnnotation"
    /\ IsSome(returned.value)
    /\ Len(annotations) = 3
    /\ annotations[2] = Val(returned.value)
    /\ annotations[2].title = "Edited"
    /\ annotations[2].color = "c1"
    /\ annotations[1].title = "New Annotation"
    /\ annotations[3].title = "New Annotation"

\* C13: nothing the caller does to the array the annotations getter returned,
\* or to a record in it, changes the collection a later read returns: a step
\* of the caller on its array or on an element of it leaves the manager's
\* collection unchanged.
C13_SnapshotIsolated ==
    [][((\E edit \in {"pop", "reverse"} : CallerEditsArray(edit))
        \/ (\E j \in 1..MaxAnnotations, data \in AnnotationUpdates :
               CallerEditsRecord(j, data)))
          => UNCHANGED annotations]_vars

\* C14: addAnnotation(data) appends one record at the end of the collection
\* and leaves the records before it as they were; it returns the stored
\* record, whose fields are those of data and the generated id; and
\* getAnnotation of the returned id then yields that record.
C14_AddAppendsAndIsFound ==
    [][\A annotation \in AnnotationData, random \in RandomValues :
          AddAnnotation(annotation, random) =>
             LET stored == Val(returned'.value)
             IN  /\ IsSome(returned'.value)
                 /\ Len(annotations') = Len(annotations) + 1
                 /\ SubSeq(annotations', 1, Len(annotations)) = annotations
                 /\ annotations'[Len(annotations')] = stored
                 /\ DOMAIN stored = DOMAIN annotation \cup {"id"}
                 /\ \A f \in DOMAIN annotation : stored[f] = annotation[f]
                 /\ GetAnnotation(annotations', stored.id) = Some(stored)]_vars

\* C15: when the render mode goes from wireframe or solid to textured, every
\* child of the displayed fragment, of GLTFModel and of OBJModel alike, has
\* the material it was parsed with.
C15_TexturedRestoresParsed ==
    [][(renderMode \in {"wireframe", "solid"} /\ SetRenderMode("textured")) =>
          \A k \in DOMAIN fragment'.children :
             fragment'.children[k].material = fragment.parsed[k]]_vars

\* the uniform appearance of the modes solid and wireframe
ModeAppearance(mode) ==
    IF mode = "solid"
    THEN [type |-> "MeshStandardMaterial", name |-> "", color |-> 13421772,
          wireframe |-> FALSE, flatShading |-> TRUE]
    ELSE [type |-> "MeshBasicMaterial", name |-> "", color |-> 65280,
          wireframe |-> TRUE, flatShading |-> FALSE]

\* C16: while the render mode is solid or wireframe every mesh of the
\* displayed fragment has the appearance of that mode (solid: flat-shaded
\* 0xcccccc; wireframe: 0x00ff00 wireframe), whatever modes came before, and
\* children that are not meshes keep their material; running the effect again
\* with the same mode leaves every child as it is.
C16_ModeIsUniform ==
    /\ [][(CameraChanged /\ renderMode \in {"solid", "wireframe"}) =>
             fragment'.children = fragment.children]_vars
    /\ []((fragment.kind # "none" /\ renderMode \in {"solid", "wireframe"}) =>
             \A k \in DOMAIN fragment.children :
                IF fragment.children[k].isMesh
                THEN fragment.children[k].material = ModeAppearance(renderMode)
                ELSE fragment.children[k].material = fragment.parsed[k])

\* a GLTF fragment with a named mesh material and a child that is not a mesh
\* is in wireframe after solid
C16_Witness ==
    /\ fragment.kind = "GLTF"
    /\ renderMode = "wireframe"
    /\ fragment.before = "solid"
    /\ Len(fragment.children) = 2
    /\ fragment.children[1].isMesh
    /\ fragment.parsed[1].type = "parsed"
    /\ fragment.parsed[1].name = "body"
    /\ fragment.children[1].material.wireframe
    /\ ~fragment.children[2].isMesh

\* the largest dimension of a bounding box is zero or not finite
Degenerate(size) ==
    \/ \E k \in 1..3 : size[k].kind # "finite"
    \/ \A k \in 1..3 : size[k].milli = 0

\* the largest of three finite dimensions, in thousandths
LargestDimension(size) ==
    CHOOSE m \in {size[k].milli : k \in 1..3} : \A k \in 1..3 : size[k].milli <= m

\* C17: the distance the camera auto-fit sets is finite and not negative for
\* every fragment; for a fragment whose largest dimension is zero or not
\* finite it is a positive default distance, and otherwise it is
\* 1.5 * |maxDim / sin(fov / 2)|.
C17_AutoFitDistance ==
    [][CameraChanged =>
          /\ cameraZ'.kind = "finite"
          /\ cameraZ'.milli >= 0
          /\ Degenerate(fragment.size) => cameraZ'.milli > 0
          /\ ~Degenerate(fragment.size) =>
                cameraZ'.milli =
                    (((LargestDimension(fragment.size) * 1000) \div SinHalfFov) * 3) \div 2]_vars

\* C18: a failure of the companion-material probe of an OBJ load never fails
\* the load and never stops it: after a failed import of the MTL loader, a
\* fetch of the .mtl resource that throws or is not OK, or a material
\* resource that fails to load, the attempt goes on to load the geometry
\* without materials, and no error is set by the probe.
C18_ProbeFailureDegrades ==
    [][\A i \in DOMAIN inflight :
          /\ ImportMTLLoader(i, FALSE) =>
                inflight'[i].phase = "importOBJLoaderAgain" /\ UNCHANGED objError
          /\ (FetchMTL(i, "throws") \/ FetchMTL(i, "not ok")) =>
                inflight'[i].phase = "importOBJLoaderAgain" /\ UNCHANGED objError
          /\ MTLLoad(i, FALSE) =>
                inflight'[i].phase = "importOBJLoaderAgain" /\ UNCHANGED objError]_vars

\* the tag the viewer dispatches on for the active handle
ActiveTag == FileExtension(Val(modelUrl), sessionStorage)

\* C19: while an object URL is the active model of the mounted hook, the
\* registry entry of that URL, the hook's fileType and the tag Model
\* dispatches on are one and the same tag; it is the tag loadModel resolved
\* when it accepted the file, and it does not change while the URL stays the
\* active model.
C19_TagIsStable ==
    /\ [][(IsLoadModelStep /\ lastOp'.outcome = "accepted") =>
             fileType' = Some(lastOp'.extension)]_vars
    /\ [][(IsSome(modelUrl) /\ modelUrl' = modelUrl /\ hookMounted') =>
             /\ fileType' = fileType
             /\ GetItem(sessionStorage', Val(modelUrl)) = GetItem(sessionStorage, Val(modelUrl))
             /\ component'.kind = component.kind]_vars
    /\ []((IsSome(modelUrl) /\ hookMounted) =>
             /\ GetItem(sessionStorage, Val(modelUrl)) = fileType
             /\ ActiveTag = Val(fileType)
             /\ viewUrl = modelUrl
             /\ component.kind =
                   (CASE Val(fileType) \in {<<"glb">>, <<"gltf">>} -> "GLTFModel"
                      [] Val(fileType) = <<"obj">> -> "OBJModel"
                      [] Val(fileType) \in {<<"stl">>, <<"fbx">>} -> "PlaceholderModel"))

\* an OBJ file is the active model after a rejected load and a failed load of
\* other files, and the viewer still runs the OBJ component for it
C19_Witness ==
    /\ hookMounted
    /\ modelUrl = Some(ObjectUrl(1))
    /\ fileType = Some(<<"obj">>)
    /\ lastOp.op = "loadModel"
    /\ lastOp.outcome = "createObjectURL threw"
    /\ lastOp.extension = <<"glb">>
    /\ component.kind = "OBJModel"

\* C20: the active model handle has an entry in the registry in every
\* reachable state: the entry is there when the URL becomes the active model,
\* and it stays while the URL is the active model.
C20_ActiveHandleIsMapped ==
    IsSome(modelUrl) => IsSome(GetItem(sessionStorage, Val(modelUrl)))

\* the second accepted model is active and mapped after the first was
\* replaced
C20_Witness ==
    /\ modelUrl = Some(ObjectUrl(2))
    /\ ObjectUrl(2) \in DOMAIN sessionStorage
    /\ ObjectUrl(1) \in revoked
    /\ lastOp.outcome = "accepted"

\* the viewer was rendered with a URL for which sessionStorage has no entry
RenderedWithoutEntry ==
    /\ lastOp.op = "render"
    /\ IsSome(viewUrl)
    /\ GetItem(sessionStorage, Val(viewUrl)) = None

\* the part of a URL before its query string
PathOf(url) == IF Includes(url, "?") THEN SubSeq(url, 1, FirstIndex(url, "?") - 1) ELSE url

C22_SuffixFromQuery ==
    (/\ RenderedWithoutEntry
     /\ ~Includes(Pop(Split(PathOf(Val(viewUrl)), "/")), ".")) =>
        \A format \in FormatNames :
            HasSuffix(UrlSearch(Val(viewUrl)), format) =>
                /\ FileExtension(Val(viewUrl), sessionStorage) = <<format>>
                /\ component.kind # "ErrorMessage"

\* the surfaces the line of sight meets on the annotation's side of the camera
Ahead(camera, position, scene) ==
    {s \in scene : (s - camera) * (position - camera) >= 0}

\* C23: isAnnotationVisible returns true when the ray from the camera toward
\* the annotation meets no surface; when it meets one, it returns true
\* exactly when the nearest of them is farther from the camera than 0.95
\* times the distance between camera and annotation, so that a surface at
\* or below 95% of that distance hides the annotation.
C23_VisibleUnlessOccluded ==
    call.op = "isAnnotationVisible" =>
        LET ahead == Ahead(call.camera, call.position, call.scene)
            d == DistanceTo(call.camera, call.position)
        IN  IF ahead = {} THEN call.result = TRUE
            ELSE LET nearest == CHOOSE s \in ahead :
                                   \A t \in ahead :
                                      DistanceTo(call.camera, s) <= DistanceTo(call.camera, t)
                 IN  call.result = (DistanceTo(call.camera, nearest) * 100 > d * 95)

\* the nearest surface is at exactly 95% of the distance, another lies
\* beyond the annotation, and the annotation is not visible
C23_Witness ==
    /\ call.op = "isAnnotationVisible"
    /\ call.camera = 0
    /\ call.position = 20
    /\ call.scene = {19, 25}
    /\ call.result = FALSE

\* a <= b, for finite a and b
LessOrEqual(a, b) == IsFinite(a) /\ IsFinite(b) /\ a.n * b.d <= b.n * a.d

\* the point lies in the view frustum of the camera: between the near and
\* the far plane, and within the canvas when projected
InFrustum(position, camera) ==
    LET view == ToView(position, camera)
        ndc == Project(position, camera)
    IN  /\ LessOrEqual(camera.near, Negate(view.z))
        /\ LessOrEqual(Negate(view.z), camera.far)
        /\ LessOrEqual(Whole(0 - 1), ndc.x) /\ LessOrEqual(ndc.x, Whole(1))
        /\ LessOrEqual(Whole(0 - 1), ndc.y) /\ LessOrEqual(ndc.y, Whole(1))

Within1(a, b) == LessOrEqual(Minus(a, b), Whole(1)) /\ LessOrEqual(Minus(b, a), Whole(1))

\* C24: worldToScreen applied to the point screenToWorld returned for a pixel
\* (x, y) of the canvas, with the same camera and canvas, returns a pixel
\* within 1 of (x, y) on both axes whenever that point lies in the view
\* frustum of the camera.
C24_RoundTrip ==
    (call.op = "worldToScreen" /\ InFrustum(call.position, call.camera)) =>
        /\ Within1(call.result.x, call.screenX)
        /\ Within1(call.result.y, call.screenY)

\* pixel (100, 50) of an 800 x 600 canvas at depth 0, with the camera at
\* (0, 0, 5) looking at the origin, comes back as (100, 50)
C24_Witness ==
    /\ call.op = "worldToScreen"
    /\ call.screenX = Whole(100)
    /\ call.screenY = Whole(50)
    /\ call.canvas = [clientWidth |-> Whole(800), clientHeight |-> Whole(600)]
    /\ call.camera.position = Vector3(Whole(0), Whole(0), Whole(5))
    /\ call.camera.turns = 0
    /\ call.position.z = Whole(0)
    /\ InFrustum(call.position, call.camera)
    /\ call.result = [x |-> Whole(100), y |-> Whole(50)]

\* OBJModel shows its loading state, or a load attempt of it is not settled
ObjPending == component.kind = "OBJModel" /\ (objLoading \/ inflight # <<>>)

\* C25: with every asynchronous result delivered, an OBJModel that is loading
\* eventually is not: each attempt ends with the object set or the error set
\* and loading false (or the component is unmounted), also when the material
\* file was fetched with an OK status and then fails to load.
C25_LoadSettles == ObjPending ~> ~ObjPending

\* the text holds the part
Contains(text, part) ==
    \E i \in 1..(Len(text) - Len(part) + 1) : SubSeq(text, i, i + Len(part) - 1) = part

\* the text names the file or the extension loadModel resolved for it
NamesFile(message, file) ==
    \/ Contains(message, file.name)
    \/ ResolveExtension(file) # EmptyString /\ Contains(message, ResolveExtension(file))

\* C26: when loadModel rejects the dropped file for its size or its format,
\* the alert the handler leaves open is not the success alert "Loaded model:
\* <name>", and what the user is shown is a failure naming the file or its
\* format: the alert is a warning or an error and its text, or the text of
\* the hook's error on display, names the file or the format.
C26_RejectionIsShown ==
    [][(IsLoadModelStep /\ lastOp'.outcome \in {"size limit", "unsupported"}) =>
          /\ alertOpen'
          /\ ~(alertSeverity' = "success" /\ alertMessage'[1] = "Loaded model: ")
          /\ alertSeverity' \in {"warning", "error"}
          /\ NamesFile(alertMessage', lastOp'.file)]_vars

\* C27: while the hook is mounted, a non-null modelUrl is never an object URL
\* that has been revoked, in every state reached by loadModel and
\* clearModel, also after a loadModel call in which URL.createObjectURL or
\* sessionStorage.setItem throws and the catch block runs.
C27_ActiveHandleUsable ==
    (hookMounted /\ IsSome(modelUrl)) => Val(modelUrl) \notin revoked

AllNull == modelUrl = None /\ fileName = None /\ fileType = None

AllSet == IsSome(modelUrl) /\ IsSome(fileName) /\ IsSome(fileType)

\* C28: modelUrl, fileName and fileType are all null or all non-null in
\* every state; they change only in a loadModel call that is accepted, which
\* sets them to the new object URL, the name of the file and its resolved
\* extension, and in clearModel, which sets the three and error to null; a
\* loadModel call that is not accepted leaves the three as they were; and
\* clearModel called when the four are null changes nothing of the hook, the
\* object URLs, the registry or the viewer.
C28_HookStateConsistent ==
    /\ [](AllNull \/ AllSet)
    /\ [][IsLoadModelStep =>
            IF lastOp'.outcome = "accepted"
            THEN /\ modelUrl' = Some(ObjectUrl(issued'))
                 /\ fileName' = Some(lastOp'.file.name)
                 /\ fileType' = Some(ResolveExtension(lastOp'.file))
            ELSE UNCHANGED <<modelUrl, fileName, fileType>>]_vars
    /\ [][ClearModel =>
            /\ modelUrl' = None /\ fileName' = None /\ fileType' = None /\ error' = None
            /\ (AllNull /\ error = None) => UNCHANGED <<hookVars, browserVars, viewerVars>>]_vars
    /\ [][(<<modelUrl, fileName, fileType>>' # <<modelUrl, fileName, fileType>>) =>
            \/ IsLoadModelStep /\ lastOp'.outcome = "accepted"
            \/ ClearModel]_vars

\* the second accepted file is described by all three after a later file was
\* rejected for its size
C28_Witness ==
    /\ lastOp.op = "loadModel"
    /\ lastOp.outcome = "size limit"
    /\ lastOp.pre.modelUrl = Some(ObjectUrl(2))
    /\ modelUrl = Some(ObjectUrl(2))
    /\ fileName = Some(<<"model", ".", "stl">>)
    /\ fileType = Some(<<"stl">>)
    /\ IsSome(error)

\* C29: a change of the render mode changes the materials of the displayed
\* fragment and never the camera: camera.position.z after the step is what
\* it was before it, for a fragment of either loader and also after the user
\* has moved the camera.
C29_ModeChangeKeepsCamera ==
    [][renderMode' # renderMode => cameraZ' = cameraZ]_vars

\* the step is a call of handleAddAnnotation
IsAddStep == \E annotation \in AnnotationData, random \in RandomValues :
                HandleAddAnnotation(annotation, random)

\* C30: after every sequence of the App's annotation handlers,
\* selectedAnnotationId is undefined or the id of an annotation the manager
\* holds, and the annotations the App displays are the manager's list, in
\* content and order; handleAddAnnotation called with no model loaded leaves
\* the manager, the displayed list and the selection as they were.
C30_SelectionAndViewFollowManager ==
    /\ [](/\ selectedAnnotationId = None
             \/ \E k \in DOMAIN annotations : annotations[k].id = Val(selectedAnnotationId)
          /\ appAnnotations = annotations)
    /\ [][(IsAddStep /\ ~IsSome(modelUrl)) =>
             UNCHANGED <<annotations, appAnnotations, selectedAnnotationId>>]_vars

\* with a model loaded two annotations were added, the second was edited,
\* the first selected and then deleted: one annotation is left, displayed,
\* and nothing is selected
C30_Witness ==
    /\ IsSome(modelUrl)
    /\ alertMessage = <<"Annotation deleted">>
    /\ selectedAnnotationId = None
    /\ Len(annotations) = 1
    /\ annotations[1].title = "Edited"
    /\ appAnnotations = annotations

====
